---- MODULE Spec2Model ----
(***************************************************************************)
(* A model of the Wordle solver: the feedback parser, the constraint       *)
(* filter and the frequency ranking of solve.py, and the interactive       *)
(* session of wordle.py that threads its current word list through them.   *)
(*                                                                         *)
(* A string is a sequence of one-character strings; a word list that       *)
(* Python holds as a set is a set, one it holds as a list is a sequence.   *)
(***************************************************************************)
EXTENDS Integers, Sequences, FiniteSets, TLC

VARIABLES
    original_wordlist,  \* WordleSolver.original_wordlist
    current_wordlist,   \* WordleSolver.current_wordlist
    common_words,       \* WordleSolver.common_words
    cmd,                \* the last shell command handled
    arg,                \* the argument text it received
    prev_wordlist,      \* current_wordlist as that command found it
    shown,              \* what the command printed: ok / error / no_words
    top_words,          \* the recommendations the command displayed
    fn,                 \* the function of solve.py last called directly
    in_words,           \* its possible_words argument
    in_guesses,         \* its guesses argument
    in_order,           \* the order in which the call iterated in_words
    in_common,          \* the common_words of the object a method was called on
    in_size,            \* its size argument
    out                 \* what the call returned

vars == <<original_wordlist, current_wordlist, common_words, cmd, arg,
          prev_wordlist, shown, top_words, fn, in_words, in_guesses,
          in_order, in_common, in_size, out>>

shell_vars == <<original_wordlist, current_wordlist, common_words, cmd, arg,
                prev_wordlist, shown, top_words>>

call_vars == <<fn, in_words, in_guesses, in_order, in_common, in_size, out>>

----------------------------------------------------------------------------
(* Characters and words                                                    *)

WordLen == 5

Lowercase == <<"a","b","c","d","e","f","g","h","i","j","k","l","m",
               "n","o","p","q","r","s","t","u","v","w","x","y","z">>

Uppercase == <<"A","B","C","D","E","F","G","H","I","J","K","L","M",
               "N","O","P","Q","R","S","T","U","V","W","X","Y","Z">>

Whitespace == {" ", "\t"}

Range(s) == {s[i] : i \in 1..Len(s)}

LowercaseLetters == Range(Lowercase)

UppercaseLetters == Range(Uppercase)

\* str.isalpha(), on the characters of the model.
IsAlpha(c) == c \in LowercaseLetters \/ c \in UppercaseLetters

\* str.lower() of one character.
LowerOf == [c \in UppercaseLetters |->
              Lowercase[CHOOSE i \in 1..Len(Uppercase) : Uppercase[i] = c]]

Lower(c) == IF c \in UppercaseLetters THEN LowerOf[c] ELSE c

LowerStr(s) == [i \in 1..Len(s) |-> Lower(s[i])]

\* The code point order of the characters of a lower-case word.
OrdOf == [c \in LowercaseLetters |->
            CHOOSE i \in 1..Len(Lowercase) : Lowercase[i] = c]

Ord(c) == OrdOf[c]

RECURSIVE StrLess(_, _)
StrLess(u, v) ==
    IF u = <<>> THEN v # <<>>
    ELSE IF v = <<>> THEN FALSE
    ELSE IF Head(u) = Head(v) THEN StrLess(Tail(u), Tail(v))
    ELSE Ord(Head(u)) < Ord(Head(v))

\* sorted(words): the ascending list of a set of words.
RECURSIVE Sorted(_)
Sorted(S) ==
    IF S = {} THEN <<>>
    ELSE LET m == CHOOSE w \in S : \A v \in S \ {w} : StrLess(w, v)
         IN  <<m>> \o Sorted(S \ {m})

RECURSIVE Strip(_)
Strip(s) ==
    IF s = <<>> THEN s
    ELSE IF Head(s) \in Whitespace THEN Strip(Tail(s))
    ELSE IF s[Len(s)] \in Whitespace THEN Strip(SubSeq(s, 1, Len(s) - 1))
    ELSE s

\* str.split() without a separator: the maximal runs of non-whitespace.
RECURSIVE SplitFrom(_, _, _)
SplitFrom(s, word, parts) ==
    IF s = <<>>
    THEN IF word = <<>> THEN parts ELSE Append(parts, word)
    ELSE IF Head(s) \in Whitespace
         THEN SplitFrom(Tail(s), <<>>,
                        IF word = <<>> THEN parts ELSE Append(parts, word))
         ELSE SplitFrom(Tail(s), Append(word, Head(s)), parts)

Split(s) == SplitFrom(s, <<>>, <<>>)

----------------------------------------------------------------------------
(* solve.py: Result, Guess, parse_input                                    *)

NOTPRESENT == "b"
INCORRECT_LOCATION == "y"
CORRECT_LOCATION == "g"

Guess(letter, result) == [letter |-> letter, result |-> result]

Raise == [raised |-> TRUE, value |-> <<>>]

Return(v) == [raised |-> FALSE, value |-> v]

valid_colors == {"g", "y", "b"}

color_map(c) ==
    CASE c = "g" -> CORRECT_LOCATION
      [] c = "y" -> INCORRECT_LOCATION
      [] c = "b" -> NOTPRESENT

\* parse_input without the check of the two lengths: zip pairs the letters
\* and the colours up to the shorter of the two.
parse_input_unchecked_length(input_str) ==
    IF input_str = <<>> \/ Strip(input_str) = <<>> THEN Raise
    ELSE LET parts == Split(Strip(input_str)) IN
    IF Len(parts) # 2 THEN Raise
    ELSE LET word   == LowerStr(parts[1])
             colors == LowerStr(parts[2])
             n      == IF Len(word) < Len(colors) THEN Len(word) ELSE Len(colors) IN
    IF ~ \A i \in 1..Len(word) : IsAlpha(word[i]) THEN Raise
    ELSE IF ~ \A i \in 1..Len(colors) : colors[i] \in valid_colors THEN Raise
    ELSE Return([i \in 1..n |-> Guess(word[i], color_map(colors[i]))])

parse_input(input_str) ==
    IF input_str = <<>> \/ Strip(input_str) = <<>> THEN Raise
    ELSE LET parts == Split(Strip(input_str)) IN
    IF Len(parts) # 2 THEN Raise
    ELSE LET word   == LowerStr(parts[1])
             colors == LowerStr(parts[2]) IN
    IF Len(word) # WordLen \/ Len(colors) # WordLen THEN Raise
    ELSE IF ~ \A i \in 1..Len(word) : IsAlpha(word[i]) THEN Raise
    ELSE IF ~ \A i \in 1..Len(colors) : colors[i] \in valid_colors THEN Raise
    ELSE Return([i \in 1..Len(word) |-> Guess(word[i], color_map(colors[i]))])

----------------------------------------------------------------------------
(* solve.py: the constraint filter                                         *)

\* word_letter_counts that records a letter once, however often it occurs.
LetterCounts_once(word) == [c \in Range(word) |-> 1]

\* The dict word_letter_counts: a function on the letters of the word.
LetterCounts(word) ==
    [c \in Range(word) |-> Cardinality({i \in 1..Len(word) : word[i] = c})]

\* dict.get(letter, 0)
Get(counts, letter) == IF letter \in DOMAIN counts THEN counts[letter] ELSE 0

Decrement(counts, letter) == [counts EXCEPT ![letter] = @ - 1]

\* The first pass without its return on a green letter that differs.
RECURSIVE GreenPass_no_return(_, _, _, _)
GreenPass_no_return(word, guesses, i, counts) ==
    IF i > Len(guesses) THEN [done |-> FALSE, raised |-> FALSE, counts |-> counts]
    ELSE IF guesses[i].result = CORRECT_LOCATION /\ word[i] = guesses[i].letter
    THEN GreenPass_no_return(word, guesses, i + 1,
                             Decrement(counts, guesses[i].letter))
    ELSE GreenPass_no_return(word, guesses, i + 1, counts)

\* First pass, from position i on: the green letters. The result is the
\* return value False, a KeyError of the subscript, or the counts the
\* second pass starts from.
RECURSIVE GreenPass(_, _, _, _)
GreenPass(word, guesses, i, counts) ==
    IF i > Len(guesses) THEN [done |-> FALSE, raised |-> FALSE, counts |-> counts]
    ELSE IF guesses[i].result = CORRECT_LOCATION
    THEN IF word[i] # guesses[i].letter
         THEN [done |-> TRUE, raised |-> FALSE, counts |-> counts]
         ELSE IF guesses[i].letter \notin DOMAIN counts
         THEN [done |-> TRUE, raised |-> TRUE, counts |-> counts]
         ELSE GreenPass(word, guesses, i + 1, Decrement(counts, guesses[i].letter))
    ELSE GreenPass(word, guesses, i + 1, counts)

\* The second pass without the decrement after a yellow letter.
RECURSIVE YellowBlackPass_no_decrement(_, _, _, _)
YellowBlackPass_no_decrement(word, guesses, i, counts) ==
    IF i > Len(guesses) THEN TRUE
    ELSE IF guesses[i].result = INCORRECT_LOCATION
    THEN IF word[i] = guesses[i].letter THEN FALSE
         ELSE IF Get(counts, guesses[i].letter) <= 0 THEN FALSE
         ELSE YellowBlackPass_no_decrement(word, guesses, i + 1, counts)
    ELSE IF guesses[i].result = NOTPRESENT
    THEN IF Get(counts, guesses[i].letter) > 0 THEN FALSE
         ELSE YellowBlackPass_no_decrement(word, guesses, i + 1, counts)
    ELSE YellowBlackPass_no_decrement(word, guesses, i + 1, counts)

\* The second pass with a black letter excluded at its own position only.
RECURSIVE YellowBlackPass_black_here(_, _, _, _)
YellowBlackPass_black_here(word, guesses, i, counts) ==
    IF i > Len(guesses) THEN TRUE
    ELSE IF guesses[i].result = INCORRECT_LOCATION
    THEN IF word[i] = guesses[i].letter THEN FALSE
         ELSE IF Get(counts, guesses[i].letter) <= 0 THEN FALSE
         ELSE YellowBlackPass_black_here(word, guesses, i + 1,
                                         Decrement(counts, guesses[i].letter))
    ELSE IF guesses[i].result = NOTPRESENT
    THEN IF word[i] = guesses[i].letter THEN FALSE
         ELSE YellowBlackPass_black_here(word, guesses, i + 1, counts)
    ELSE YellowBlackPass_black_here(word, guesses, i + 1, counts)

\* Second pass, from position i on: the yellow and the black letters.
RECURSIVE YellowBlackPass(_, _, _, _)
YellowBlackPass(word, guesses, i, counts) ==
    IF i > Len(guesses) THEN TRUE
    ELSE IF guesses[i].result = INCORRECT_LOCATION
    THEN IF word[i] = guesses[i].letter THEN FALSE
         ELSE IF Get(counts, guesses[i].letter) <= 0 THEN FALSE
         ELSE YellowBlackPass(word, guesses, i + 1,
                              Decrement(counts, guesses[i].letter))
    ELSE IF guesses[i].result = NOTPRESENT
    THEN IF Get(counts, guesses[i].letter) > 0 THEN FALSE
         ELSE YellowBlackPass(word, guesses, i + 1, counts)
    ELSE YellowBlackPass(word, guesses, i + 1, counts)

\* _word_matches_guesses that also bans every black letter from the whole
\* word.
_word_matches_guesses_naive_ban(word0, guesses) ==
    LET word  == LowerStr(word0)
        green == GreenPass(word, guesses, 1, LetterCounts(word))
    IN  IF green.raised THEN Raise
        ELSE IF green.done THEN Return(FALSE)
        ELSE Return(/\ YellowBlackPass(word, guesses, 1, green.counts)
                    /\ \A i \in 1..Len(guesses) :
                          guesses[i].result = NOTPRESENT =>
                              guesses[i].letter \notin Range(word))

_word_matches_guesses(word0, guesses) ==
    LET word  == LowerStr(word0)
        green == GreenPass(word, guesses, 1, LetterCounts(word))
    IN  IF green.raised THEN Raise
        ELSE IF green.done THEN Return(FALSE)
        ELSE Return(YellowBlackPass(word, guesses, 1, green.counts))

\* get_top_recommendations whose loop skips the first word, taken here to be
\* the least one.
get_top_recommendations_skip_first(possible_words, guesses) ==
    IF guesses = <<>> THEN Return(possible_words)
    ELSE LET rest == possible_words \ {w \in possible_words :
                        \A v \in possible_words \ {w} : StrLess(w, v)}
         IN  Return({word \in rest : _word_matches_guesses(word, guesses).value})

\* get_top_recommendations that raises when no word is left.
get_top_recommendations_raise_empty(possible_words, guesses) ==
    IF guesses = <<>> THEN Return(possible_words)
    ELSE LET filtered_words ==
                {word \in possible_words :
                    _word_matches_guesses(word, guesses).value}
         IN  IF filtered_words = {} THEN Raise ELSE Return(filtered_words)

get_top_recommendations(possible_words, guesses) ==
    IF guesses = <<>> THEN Return(possible_words)
    ELSE IF \E word \in possible_words : _word_matches_guesses(word, guesses).raised
    THEN Raise
    ELSE Return({word \in possible_words :
                    _word_matches_guesses(word, guesses).value})

----------------------------------------------------------------------------
(* solve.py: FrequencyAnalyzer and get_best_recommendations                *)
(*                                                                         *)
(* A frequency or a score is an exact fraction [n, d]; the floats of the   *)
(* code are these fractions up to rounding.                                *)

Frac(n, d) == [n |-> n, d |-> d]

FracAdd(a, b) ==
    IF a.d = b.d THEN Frac(a.n + b.n, a.d)
    ELSE Frac(a.n * b.d + b.n * a.d, a.d * b.d)

FracMul(a, b) == Frac(a.n * b.n, a.d * b.d)

FracLess(a, b) ==
    IF a.d = b.d THEN a.n < b.n ELSE a.n * b.d < b.n * a.d

FracEq(a, b) ==
    IF a.d = b.d THEN a.n = b.n ELSE a.n * b.d = b.n * a.d

\* The sum of f[x] over the x in S.
RECURSIVE SumNat(_, _)
SumNat(S, f) ==
    IF S = {} THEN 0
    ELSE LET x == CHOOSE y \in S : TRUE IN f[x] + SumNat(S \ {x}, f)

\* word[i:i+2], with i counted from 1.
Pair(word, i) == <<word[i], word[i + 1]>>

\* total_letters: each word adds one per distinct letter.
TotalLetters(words) == SumNat(words, [w \in words |-> Cardinality(Range(w))])

\* total_pairs: each word adds one per adjacent pair.
TotalPairs(words) == SumNat(words, [w \in words |-> Len(w) - 1])

\* _calculate_letter_frequencies dividing by the number of words.
_calculate_letter_frequencies_per_word(words) ==
    LET letters == UNION {Range(w) : w \in words}
    IN  [letter \in letters |->
            Frac(Cardinality({w \in words : letter \in Range(w)}),
                 Cardinality(words))]

_calculate_letter_frequencies(words) ==
    LET letters == UNION {Range(w) : w \in words}
    IN  [letter \in letters |->
            Frac(Cardinality({w \in words : letter \in Range(w)}),
                 TotalLetters(words))]

_calculate_position_frequencies(words) ==
    LET keys == UNION {{<<w[pos], pos>> : pos \in 1..Len(w)} : w \in words}
        total_words == Cardinality(words)
    IN  [key \in keys |->
            Frac(Cardinality({w \in words : Len(w) >= key[2] /\ w[key[2]] = key[1]}),
                 total_words)]

_calculate_pair_frequencies(words) ==
    LET pairs == UNION {{Pair(w, i) : i \in 1..(Len(w) - 1)} : w \in words}
        Count(pair) ==
            SumNat(words, [w \in words |->
                Cardinality({i \in 1..(Len(w) - 1) : Pair(w, i) = pair})])
    IN  [pair \in pairs |-> Frac(Count(pair), TotalPairs(words))]

\* sum(freq.get(key, 0) for key in keys), the frequencies sharing the
\* denominator den.
SumFreq(freq, keys, den) ==
    Frac(SumNat(keys, [k \in keys |-> IF k \in DOMAIN freq THEN freq[k].n ELSE 0]),
         den)

\* The three frequency tables are the fields the constructor computed from
\* `words`.
calculate_word_score(words, word0) ==
    LET word == LowerStr(word0)
        letter_score ==
            SumFreq(_calculate_letter_frequencies(words), Range(word),
                    TotalLetters(words))
        position_score ==
            SumFreq(_calculate_position_frequencies(words),
                    {<<word[pos], pos>> : pos \in 1..Len(word)},
                    Cardinality(words))
        pairs_of_word ==
            LET rf == _calculate_pair_frequencies(words)
            IN  SumNat(1..(Len(word) - 1),
                       [i \in 1..(Len(word) - 1) |->
                           IF Pair(word, i) \in DOMAIN rf
                           THEN rf[Pair(word, i)].n ELSE 0])
        pair_score == Frac(pairs_of_word, TotalPairs(words))
        unique_bonus == Frac(Cardinality(Range(word)), 5)
    IN  FracAdd(FracAdd(FracAdd(FracMul(letter_score, Frac(3, 10)),
                                FracMul(position_score, Frac(4, 10))),
                        FracMul(pair_score, Frac(2, 10))),
                FracMul(unique_bonus, Frac(1, 10)))

\* list.sort(key=score, reverse=True) is stable: an item goes behind every
\* item whose score is at least its own. score is the function word -> score.
RECURSIVE StableSortDesc(_, _)
StableSortDesc(items, score) ==
    IF items = <<>> THEN <<>>
    ELSE LET n    == Len(items)
             rest == StableSortDesc(SubSeq(items, 1, n - 1), score)
             x    == items[n]
             k    == Cardinality({i \in 1..Len(rest) :
                                     ~ FracLess(score[rest[i]], score[x])})
         IN  SubSeq(rest, 1, k) \o <<x>> \o SubSeq(rest, k + 1, Len(rest))

\* items[:n]
Take(items, n) == SubSeq(items, 1, IF n < Len(items) THEN n ELSE Len(items))

\* `order` is the order in which the comprehension iterates possible_words,
\* a set of strings: Python fixes it per process, not per value.
get_best_recommendations(order, count) ==
    IF order = <<>> THEN <<>>
    ELSE LET possible_words == Range(order)
             score == [w \in possible_words |->
                          calculate_word_score(possible_words, w)]
         IN  Take(StableSortDesc(order, score), count)

----------------------------------------------------------------------------
(* wordle.py: WordleSolver                                                 *)

SelectIn(s, S) == LET In(w) == w \in S IN SelectSeq(s, In)

_get_top_choices(commons, possible_words, size) ==
    LET common_choices == SelectIn(commons, possible_words)
        remaining_words == {w \in possible_words : w \notin Range(common_choices)}
    IN  IF Len(common_choices) < size
        THEN Take(common_choices
                    \o Take(Sorted(remaining_words), size - Len(common_choices)),
                  size)
        ELSE Take(common_choices, size)

\* The number of recommendations do_guess asks for.
TopN == 10

----------------------------------------------------------------------------
(* The inputs                                                              *)

\* The largest dictionary, and the largest candidate set of a direct call.
MaxCands == 2

\* The longest common-word list.
MaxCommon == 1

Vocabulary ==
    { <<"a","b","c","d","e">>, <<"f","g","h","i","j">>,
      <<"s","h","e","e","p">>, <<"s","p","e","e","d">>,
      <<"s","p","r","e","e">> }

\* The word files a session can have loaded; the empty one is a failed load,
\* which leaves both word lists empty.
Dictionaries == {D \in SUBSET Vocabulary : Cardinality(D) <= MaxCands}

\* The lists over D of at most MaxCommon words (a file may repeat a word).
CommonLists(D) == UNION {[1..n -> D] : n \in 0..MaxCommon}

Codes == [1..WordLen -> valid_colors]

\* Every feedback on a vocabulary word, and the empty list of guesses.
Feedbacks ==
    {[i \in 1..WordLen |-> Guess(w[i], color_map(c[i]))] :
        w \in Vocabulary, c \in Codes} \cup {<<>>}

\* The feedback rule of the specification (section 4.1), position by
\* position and without any count of duplicates.
evaluate(guess, target) ==
    [i \in 1..Len(guess) |->
        Guess(guess[i],
              IF guess[i] = target[i] THEN CORRECT_LOCATION
              ELSE IF guess[i] \notin Range(target) THEN NOTPRESENT
              ELSE INCORRECT_LOCATION)]

\* The standard feedback rule of Wordle: the letters in their place are
\* Correct; then, from left to right, another letter is Present while the
\* target holds occurrences of it that no Correct and no earlier Present
\* letter has matched, and Absent otherwise.
StdEvaluate(guess, target) ==
    LET greens == {i \in 1..Len(guess) : guess[i] = target[i]}
        in_target(c) == Cardinality({j \in 1..Len(target) : target[j] = c})
        correct(c)   == Cardinality({j \in greens : guess[j] = c})
        earlier(i)   == Cardinality({j \in 1..(i - 1) :
                                        j \notin greens /\ guess[j] = guess[i]})
    IN  [i \in 1..Len(guess) |->
            Guess(guess[i],
                  IF i \in greens THEN CORRECT_LOCATION
                  ELSE IF earlier(i) < in_target(guess[i]) - correct(guess[i])
                  THEN INCORRECT_LOCATION
                  ELSE NOTPRESENT)]

AllTagged(guess, result) == [i \in 1..Len(guess) |-> Guess(guess[i], result)]

\* The text "<word> <code>" of a feedback.
Format(guesses) ==
    [i \in 1..Len(guesses) |-> guesses[i].letter] \o <<" ">>
        \o [i \in 1..Len(guesses) |-> guesses[i].result]

\* The words guessed in a session.
GuessWords ==
    { <<"a","b","c","d","e">>, <<"s","h","e","e","p">>,
      <<"s","p","r","e","e">> }

WellFormedArgs ==
    {Format(evaluate(g, t)) : g \in GuessWords, t \in Vocabulary}
        \cup {Format(StdEvaluate(g, t)) : g \in GuessWords, t \in Vocabulary}
        \cup {Format(AllTagged(g, NOTPRESENT)) : g \in GuessWords}
        \cup { <<" ","S","P","R","E","E"," ","\t","B","B","B","Y","G"," ">> }

MalformedArgs ==
    { <<>>, <<" ">>,
      <<"s","p","r","e","e">>,
      <<"s","p","r","e","e"," ","b","b","b","y","g"," ","g">>,
      <<"s","p","r","e"," ","b","b","b","y","g">>,
      <<"s","p","r","e","e"," ","b","b","b","y">>,
      <<"s","p","r","3","e"," ","b","b","b","y","g">>,
      <<"s","p","r","e","e"," ","b","b","x","y","g">>,
      <<"s","p","r","e","e",",","b","b","b","y","g">> }

GuessArgs == WellFormedArgs \cup MalformedArgs

\* parse_input and str.strip on each argument text, computed once.
Parsed == [a \in GuessArgs |-> parse_input(a)]

Stripped == [a \in GuessArgs |-> Strip(a)]

NewgameArgs == { <<>>, <<"n","o","w">> }

\* The orders in which a set can be iterated.
Orders(S) == {o \in [1..Cardinality(S) -> S] : Range(o) = S}

RankCounts == {1, TopN}

\* The longest common-word list, and the largest size, of a direct call of
\* _get_top_choices.
MaxCallCommon == 2

MaxSize == 3

\* The common-word lists of those calls: _load_wordlists keeps every line of
\* the file that names a dictionary word, repeated lines included.
CallCommonLists == UNION {[1..n -> Vocabulary] : n \in 0..MaxCallCommon}

----------------------------------------------------------------------------
(* The state machine                                                       *)

NoCall ==
    /\ fn = "none"
    /\ in_words = {}
    /\ in_guesses = <<>>
    /\ in_order = <<>>
    /\ in_common = <<>>
    /\ in_size = 0
    /\ out = Return(<<>>)

\* WordleSolver.__init__: a shell whose word files held D and commons.
InitShell ==
    \E D \in Dictionaries : \E commons \in CommonLists(D) :
        /\ original_wordlist = D
        /\ current_wordlist = D
        /\ common_words = commons
        /\ cmd = "init"
        /\ arg = <<>>
        /\ prev_wordlist = D
        /\ shown = IF D = {} THEN "error" ELSE "nothing"
        /\ top_words = <<>>
        /\ NoCall

\* No shell: a caller that imports solve.py and calls its functions.
InitLibrary ==
    /\ original_wordlist = {}
    /\ current_wordlist = {}
    /\ common_words = <<>>
    /\ cmd = "none"
    /\ arg = <<>>
    /\ prev_wordlist = {}
    /\ shown = "nothing"
    /\ top_words = <<>>
    /\ NoCall

Init == InitShell \/ InitLibrary

\* do_newgame announcing a new game without resetting the word list.
do_newgame_no_reset(a) ==
    /\ cmd' = "newgame"
    /\ arg' = a
    /\ prev_wordlist' = current_wordlist
    /\ top_words' = <<>>
    /\ shown' = IF a # <<>> THEN "error" ELSE "success"
    /\ current_wordlist' = current_wordlist
    /\ UNCHANGED <<original_wordlist, common_words>>
    /\ UNCHANGED call_vars

do_newgame(a) ==
    /\ cmd' = "newgame"
    /\ arg' = a
    /\ prev_wordlist' = current_wordlist
    /\ top_words' = <<>>
    /\ IF a # <<>>
       THEN /\ shown' = "error"
            /\ current_wordlist' = current_wordlist
       ELSE /\ shown' = "success"
            /\ current_wordlist' = original_wordlist
    /\ UNCHANGED <<original_wordlist, common_words>>
    /\ UNCHANGED call_vars

\* do_guess filtering the original word list instead of the current one.
do_guess_from_original(a) ==
    /\ cmd' = "guess"
    /\ arg' = a
    /\ prev_wordlist' = current_wordlist
    /\ LET guess    == Parsed[a]
           filtered == get_top_recommendations(original_wordlist, guess.value)
           choices  == _get_top_choices(common_words, filtered.value, TopN)
       IN  IF Stripped[a] = <<>> \/ guess.raised \/ filtered.raised
           THEN /\ shown' = "error"
                /\ top_words' = <<>>
                /\ current_wordlist' = current_wordlist
           ELSE /\ current_wordlist' = filtered.value
                /\ top_words' = choices
                /\ shown' = IF choices = <<>> THEN "no_words"
                            ELSE "recommendations"
    /\ UNCHANGED <<original_wordlist, common_words>>
    /\ UNCHANGED call_vars

do_guess(a) ==
    /\ cmd' = "guess"
    /\ arg' = a
    /\ prev_wordlist' = current_wordlist
    /\ LET guess    == Parsed[a]
           filtered == get_top_recommendations(current_wordlist, guess.value)
           choices  == _get_top_choices(common_words, filtered.value, TopN)
       IN  IF Stripped[a] = <<>> \/ guess.raised \/ filtered.raised
           THEN /\ shown' = "error"
                /\ top_words' = <<>>
                /\ current_wordlist' = current_wordlist
           ELSE /\ current_wordlist' = filtered.value
                /\ top_words' = choices
                /\ shown' = IF choices = <<>> THEN "no_words"
                            ELSE "recommendations"
    /\ UNCHANGED <<original_wordlist, common_words>>
    /\ UNCHANGED call_vars

\* A direct call get_top_recommendations(words, guesses).
CallFilter ==
    /\ cmd = "none"
    /\ fn = "none"
    /\ \E words \in Dictionaries : \E guesses \in Feedbacks :
        /\ fn' = "get_top_recommendations"
        /\ in_words' = words
        /\ in_guesses' = guesses
        /\ in_order' = <<>>
        /\ out' = get_top_recommendations(words, guesses)
    /\ UNCHANGED <<in_common, in_size>>
    /\ UNCHANGED shell_vars

\* The caller filters the returned set once more with the same guesses.
CallFilterAgain ==
    /\ fn = "get_top_recommendations"
    /\ ~ out.raised
    /\ fn' = "get_top_recommendations"
    /\ in_words' = out.value
    /\ in_guesses' = in_guesses
    /\ in_order' = <<>>
    /\ out' = get_top_recommendations(out.value, in_guesses)
    /\ UNCHANGED <<in_common, in_size>>
    /\ UNCHANGED shell_vars

\* A direct call get_best_recommendations(words, count), which iterates
\* words in some order.
CallRank ==
    /\ cmd = "none"
    /\ fn = "none"
    /\ \E words \in Dictionaries : \E order \in Orders(words) :
       \E count \in RankCounts :
        /\ fn' = "get_best_recommendations"
        /\ in_words' = words
        /\ in_guesses' = <<>>
        /\ in_order' = order
        /\ out' = Return(get_best_recommendations(order, count))
    /\ UNCHANGED <<in_common, in_size>>
    /\ UNCHANGED shell_vars

\* FrequencyAnalyzer(words): the constructor computes the three tables.
CallAnalyzer ==
    /\ cmd = "none"
    /\ fn = "none"
    /\ \E words \in Dictionaries :
        /\ fn' = "FrequencyAnalyzer"
        /\ in_words' = words
        /\ out' = Return(
              [_letter_frequencies |-> _calculate_letter_frequencies(words),
               _position_frequencies |-> _calculate_position_frequencies(words),
               _letter_pair_frequencies |-> _calculate_pair_frequencies(words)])
    /\ UNCHANGED <<in_guesses, in_order, in_common, in_size>>
    /\ UNCHANGED shell_vars

\* A direct call _get_top_choices(possible_words, size) on an object whose
\* common_words is commons.
CallTopChoices ==
    /\ cmd = "none"
    /\ fn = "none"
    /\ \E commons \in CallCommonLists : \E words \in Dictionaries :
       \E size \in 1..MaxSize :
        /\ fn' = "_get_top_choices"
        /\ in_words' = words
        /\ in_common' = commons
        /\ in_size' = size
        /\ out' = Return(_get_top_choices(commons, words, size))
    /\ UNCHANGED <<in_guesses, in_order>>
    /\ UNCHANGED shell_vars

Next ==
    \/ cmd # "none" /\ \E a \in GuessArgs : do_guess(a)
    \/ cmd # "none" /\ \E a \in NewgameArgs : do_newgame(a)
    \/ CallFilter
    \/ CallFilterAgain
    \/ CallRank
    \/ CallTopChoices
    \/ CallAnalyzer

Spec == Init /\ [][Next]_vars

----------------------------------------------------------------------------
(* The claims                                                              *)

Filtered == fn = "get_top_recommendations" /\ Len(in_guesses) = WordLen

Occurrences(c, w) == Cardinality({i \in 1..Len(w) : w[i] = c})

GuessWordOf(guesses) == [i \in 1..Len(guesses) |-> guesses[i].letter]

\* C1: the filter returns a subset of the candidate set it was given, and
\* a guess command leaves current_wordlist a subset of what it found.
C1_MonotonicShrink ==
    /\ Filtered => ~ out.raised /\ out.value \subseteq in_words
    /\ cmd = "guess" => current_wordlist \subseteq prev_wordlist

C1_Witness ==
    /\ cmd = "guess"
    /\ shown = "recommendations"
    /\ current_wordlist # prev_wordlist
    /\ current_wordlist \subseteq prev_wordlist

\* C2 as stated: a candidate T survives the feedback evaluate(G, T) of any
\* guess G scored against it by the per-position rule.
C2_SelfConsistency ==
    Filtered =>
        \A T \in in_words : \A G \in Vocabulary :
            in_guesses = evaluate(G, T) => T \in out.value

\* No letter of T is guessed more often in G than T holds it.
NoExcess(G, T) ==
    \A c \in Range(G) \cap Range(T) : Occurrences(c, G) <= Occurrences(c, T)

\* C2 amended: a candidate T survives the feedback evaluate(G, T) whenever
\* no letter of T occurs more often in G than in T, and only then.
C2_SelfConsistencyNoExcess ==
    Filtered =>
        \A T \in in_words : \A G \in Vocabulary :
            in_guesses = evaluate(G, T) => (T \in out.value <=> NoExcess(G, T))

C2_Witness ==
    /\ Filtered
    /\ \E T \in in_words : \E G \in Vocabulary :
        /\ G # T
        /\ in_guesses = evaluate(G, T)
        /\ \E c \in Range(T) : Occurrences(c, G) > 1
        /\ NoExcess(G, T)
        /\ T \in out.value

\* C3 as stated: no word kept by the filter has, at a position tagged
\* Absent, the letter guessed there.
C3_AbsentExcludesPosition ==
    Filtered =>
        \A i \in 1..WordLen :
            in_guesses[i].result = NOTPRESENT =>
                \A w \in out.value : w[i] # in_guesses[i].letter

\* The three passes of the specification (section 4.2).
ThreePass(C, F) ==
    LET G == GuessWordOf(F) IN
    {w \in C :
        \A i \in 1..Len(F) :
            LET c == F[i].letter IN
            /\ F[i].result = CORRECT_LOCATION => w[i] = c
            /\ F[i].result = NOTPRESENT =>
                  IF Occurrences(c, G) = 1 THEN c \notin Range(w) ELSE w[i] # c
            /\ F[i].result = INCORRECT_LOCATION => c \in Range(w) /\ w[i] # c}

\* The positions of F that use up an occurrence of the letter c before the
\* second pass reaches position i: every Correct one, and the Present ones
\* to the left of i.
Consumed(F, c, i) ==
    Cardinality({j \in 1..Len(F) :
        /\ F[j].letter = c
        /\ \/ F[j].result = CORRECT_LOCATION
           \/ F[j].result = INCORRECT_LOCATION /\ j < i})

CountPass(C, F) ==
    {w \in C :
        \A i \in 1..Len(F) :
            LET c == F[i].letter IN
            /\ F[i].result = CORRECT_LOCATION => w[i] = c
            /\ F[i].result = NOTPRESENT =>
                  Occurrences(c, w) <= Consumed(F, c, i)
            /\ F[i].result = INCORRECT_LOCATION =>
                  w[i] # c /\ Occurrences(c, w) > Consumed(F, c, i)}

NoRepeat(G) == \A c \in Range(G) : Occurrences(c, G) = 1

C5_Idempotence ==
    [][ /\ ( /\ fn = "get_top_recommendations"
             /\ fn' = "get_top_recommendations"
             /\ ~ out.raised
             /\ in_words' = out.value
             /\ in_guesses' = in_guesses )
            => out' = out
        /\ (cmd = "guess" /\ cmd' = "guess" /\ arg' = arg)
            => current_wordlist' = current_wordlist ]_vars

C5_Witness ==
    /\ cmd = "guess"
    /\ shown = "recommendations"
    /\ current_wordlist = prev_wordlist
    /\ current_wordlist # original_wordlist

\* C6: the feedback that tags every letter of a candidate T Correct leaves
\* exactly T.
C6_AllCorrect ==
    Filtered =>
        \A T \in in_words :
            in_guesses = AllTagged(T, CORRECT_LOCATION) => out.value = {T}

C6_Witness ==
    /\ Filtered
    /\ Cardinality(in_words) > 1
    /\ \E T \in in_words :
        in_guesses = AllTagged(T, CORRECT_LOCATION) /\ out.value = {T}

\* C7: the feedback that tags every letter of a guess Absent leaves the
\* candidates that hold none of its letters.
C7_AllAbsent ==
    Filtered =>
        \A G \in Vocabulary :
            in_guesses = AllTagged(G, NOTPRESENT) =>
                out.value = {w \in in_words : Range(w) \cap Range(G) = {}}

C7_Witness ==
    /\ Filtered
    /\ \E G \in Vocabulary :
        /\ ~ NoRepeat(G)
        /\ in_guesses = AllTagged(G, NOTPRESENT)
        /\ out.value # {}
        /\ out.value # in_words

Ranked == fn = "get_best_recommendations"

\* C8 as stated: of two recommended words with equal scores, the one the
\* list puts first is the lexicographically smaller.
C8_TiesLexicographic ==
    Ranked =>
        \A i, j \in 1..Len(out.value) :
            /\ i < j
            /\ FracEq(calculate_word_score(in_words, out.value[i]),
                      calculate_word_score(in_words, out.value[j]))
            => StrLess(out.value[i], out.value[j])

\* C9: a guess command whose text is malformed fails in parse_input and
\* changes neither word list.
C9_ParseFailureNotApplied ==
    [][ (cmd' = "guess" /\ arg' \in MalformedArgs) =>
            /\ parse_input(arg').raised
            /\ shown' = "error"
            /\ current_wordlist' = current_wordlist
            /\ original_wordlist' = original_wordlist ]_vars

C9_Witness ==
    /\ cmd = "guess"
    /\ arg \in MalformedArgs
    /\ Strip(arg) # <<>>
    /\ shown = "error"
    /\ current_wordlist # {}
    /\ current_wordlist # original_wordlist

\* C10: the filter never raises, it returns the empty set for the empty
\* set, a well-formed guess that leaves no word is answered as a result,
\* and an empty current_wordlist stays empty under every guess.
C10_EmptyAbsorbing ==
    /\ [](fn = "get_top_recommendations" =>
            ~ out.raised /\ (in_words = {} => out.value = {}))
    /\ []((cmd = "guess" /\ arg \in WellFormedArgs) =>
            shown = IF current_wordlist = {} THEN "no_words"
                    ELSE "recommendations")
    /\ [][ (cmd' = "guess" /\ current_wordlist = {}) =>
              current_wordlist' = {} ]_vars

C10_Witness ==
    /\ cmd = "guess"
    /\ arg \in WellFormedArgs
    /\ original_wordlist # {}
    /\ prev_wordlist = {}
    /\ current_wordlist = {}
    /\ shown = "no_words"

TopChosen == fn = "_get_top_choices"

\* The place of the first occurrence of w in the list s.
FirstIndex(s, w) ==
    CHOOSE i \in 1..Len(s) : s[i] = w /\ \A j \in 1..(i - 1) : s[j] # w

\* r lists k common candidates first, the earliest of the common-word list
\* in its order, and then only candidates that are not common, the
\* lexicographically smallest of them in ascending order.
CommonFirst(r, commons, candidates) ==
    LET common_candidates == candidates \cap Range(commons)
        k      == IF Len(r) < Cardinality(common_candidates) THEN Len(r)
                  ELSE Cardinality(common_candidates)
        prefix == {r[i] : i \in 1..k}
        rest   == {r[i] : i \in (k + 1)..Len(r)}
    IN  /\ prefix \subseteq common_candidates
        /\ \A i, j \in 1..k :
              i < j => FirstIndex(commons, r[i]) < FirstIndex(commons, r[j])
        /\ \A w \in common_candidates \ prefix : \A v \in prefix :
              FirstIndex(commons, v) < FirstIndex(commons, w)
        /\ rest \subseteq candidates \ common_candidates
        /\ \A i, j \in (k + 1)..Len(r) : i < j => StrLess(r[i], r[j])
        /\ \A w \in (candidates \ common_candidates) \ rest : \A v \in rest :
              StrLess(v, w)

\* C11: for every common-word list, candidate set and size n >= 1,
\* _get_top_choices returns a list without duplicates, of min(n, number of
\* candidates) candidates, that starts with the common candidates in the
\* order of the common-word list and continues, only when these are fewer
\* than n, with the other candidates in lexicographic order.
C11_CommonFirstNoDuplicates ==
    TopChosen =>
        LET r == out.value
        IN  /\ \A i, j \in 1..Len(r) : i # j => r[i] # r[j]
            /\ Len(r) = IF in_size < Cardinality(in_words) THEN in_size
                        ELSE Cardinality(in_words)
            /\ CommonFirst(r, in_common, in_words)

\* The same for the common-word lists that name no word twice.
C11_DuplicateFreeCommonList ==
    (TopChosen /\ \A i, j \in 1..Len(in_common) :
                        i # j => in_common[i] # in_common[j]) =>
        LET r == out.value
        IN  /\ \A i, j \in 1..Len(r) : i # j => r[i] # r[j]
            /\ Len(r) = IF in_size < Cardinality(in_words) THEN in_size
                        ELSE Cardinality(in_words)
            /\ CommonFirst(r, in_common, in_words)

Analyzed == fn = "FrequencyAnalyzer" /\ in_words # {}

\* What calculate_word_score reads for the letter x:
\* self._letter_frequencies.get(x, 0).
LetterFrequency(x) ==
    IF x \in DOMAIN out.value._letter_frequencies
    THEN out.value._letter_frequencies[x]
    ELSE Frac(0, 1)

WordsContaining(x) == {w \in in_words : \E i \in 1..Len(w) : w[i] = x}

\* The pairs of a word and a letter it contains, a letter that a word
\* repeats counted once for that word.
LetterPresences ==
    {p \in in_words \X LowercaseLetters : \E i \in 1..Len(p[1]) : p[1][i] = p[2]}

\* C12 as stated: the frequency of every letter is the number of candidates
\* containing it divided by the number of candidates.
C12_FractionOfWords ==
    Analyzed =>
        \A x \in LowercaseLetters :
            FracEq(LetterFrequency(x),
                   Frac(Cardinality(WordsContaining(x)), Cardinality(in_words)))

\* C12: for every non-empty candidate set S and every letter x, the
\* frequency the scorer uses for x is the number of words of S containing x
\* divided by the number of (word, letter) presences in S, the sum over the
\* words of S of their numbers of distinct letters; the frequencies of all
\* letters sum to 1.
C12_ShareOfLetterPresences ==
    Analyzed =>
        /\ \A x \in LowercaseLetters :
              FracEq(LetterFrequency(x),
                     Frac(Cardinality(WordsContaining(x)),
                          Cardinality(LetterPresences)))
        /\ \A x \in DOMAIN out.value._letter_frequencies :
              out.value._letter_frequencies[x].d = Cardinality(LetterPresences)
        /\ SumNat(LowercaseLetters,
                  [x \in LowercaseLetters |-> LetterFrequency(x).n])
              = Cardinality(LetterPresences)

C12_Witness ==
    /\ Analyzed
    /\ Cardinality(in_words) >= 2
    /\ \E x \in LowercaseLetters :
          /\ Cardinality(WordsContaining(x)) = 2
          /\ LetterFrequency(x).n = 2
          /\ LetterFrequency(x).d > Cardinality(in_words)
    /\ \E w \in in_words : Cardinality(Range(w)) < Len(w)

\* C13 as stated: in a session current_wordlist is a subset of
\* original_wordlist, no command changes original_wordlist, and after every
\* newgame command current_wordlist equals original_wordlist.
C13_EveryNewgameResets ==
    /\ [](cmd # "none" => current_wordlist \subseteq original_wordlist)
    /\ [][original_wordlist' = original_wordlist]_vars
    /\ [](cmd = "newgame" => current_wordlist = original_wordlist)

\* C13: after any sequence of guess and newgame commands, well-formed or
\* not, current_wordlist is a subset of original_wordlist and
\* original_wordlist is the dictionary loaded at the start; immediately
\* after a newgame command given without an argument current_wordlist
\* equals original_wordlist, and a newgame command given with an argument
\* is answered with an error and leaves current_wordlist as it found it.
C13_BareNewgameResets ==
    /\ [](cmd # "none" => current_wordlist \subseteq original_wordlist)
    /\ [][original_wordlist' = original_wordlist]_vars
    /\ []((cmd = "newgame" /\ arg = <<>>) =>
            current_wordlist = original_wordlist /\ shown = "success")
    /\ []((cmd = "newgame" /\ arg # <<>>) =>
            current_wordlist = prev_wordlist /\ shown = "error")

C13_Witness ==
    /\ cmd = "newgame"
    /\ arg = <<>>
    /\ prev_wordlist # original_wordlist
    /\ current_wordlist = original_wordlist
    /\ original_wordlist # {}

\* A newgame command with an argument that found a shrunk word list.
C13_RejectedWitness ==
    /\ cmd = "newgame"
    /\ arg # <<>>
    /\ shown = "error"
    /\ current_wordlist # original_wordlist
    /\ current_wordlist # {}

\* The feedback `guesses` is the standard scoring of its word against T.
ScoredAgainst(guesses, T) ==
    /\ Len(guesses) = Len(T)
    /\ guesses = StdEvaluate(GuessWordOf(guesses), T)

\* The command just handled is one a game against the target T gives: a
\* newgame, a guess that was rejected, or a guess scored against T.
PlayedAgainst(T) ==
    IF cmd = "guess"
    THEN Stripped[arg] = <<>> \/ Parsed[arg].raised
            \/ ScoredAgainst(Parsed[arg].value, T)
    ELSE cmd = "newgame"

\* C14: the filter keeps every candidate T against which the feedback it is
\* given is the standard, duplicate-aware scoring of the guessed word; so a
\* command of a game against a target T that finds T in current_wordlist
\* leaves it there, and through any sequence of guesses scored against one
\* target of the dictionary the target stays in current_wordlist, which
\* does not become empty.
C14_StandardScoringSound ==
    /\ Filtered =>
          \A T \in in_words : ScoredAgainst(in_guesses, T) => T \in out.value
    /\ cmd \in {"guess", "newgame"} =>
          \A T \in prev_wordlist :
              PlayedAgainst(T) =>
                  T \in current_wordlist /\ T \in original_wordlist

\* A later guess of a game, after an earlier one removed a word, repeats a
\* letter more often than the target holds it, is scored Absent for the
\* excess, and the target is kept.
C14_Witness ==
    /\ cmd = "guess"
    /\ prev_wordlist # original_wordlist
    /\ prev_wordlist # {}
    /\ shown = "recommendations"
    /\ \E T \in current_wordlist :
          /\ ScoredAgainst(Parsed[arg].value, T)
          /\ Parsed[arg].value # evaluate(GuessWordOf(Parsed[arg].value), T)

====
